---- MODULE Spec2Model ----
(***************************************************************************)
(* SpyBOAT processing core: transform_stack (the pixel-by-pixel wavelet    *)
(* pipeline over one movie chunk) and run_parallel (row-wise split of the  *)
(* movie, one transform_stack task per slice in a process pool, stitching  *)
(* of the results), from src/spyboat/processing.py.                        *)
(*                                                                         *)
(* A movie is a sequence of rows, a row a sequence of MovieW pixels, and   *)
(* a pixel holds its whole time series movie[:, y, x] as one opaque value  *)
(* of Series.  The code never compares or combines the time series of two  *)
(* pixels, so the input movies carry a different series at every pixel:    *)
(* a column that ends up at the wrong place, twice or not at all shows in  *)
(* the output.  The calls into pyboat are functions of their arguments:    *)
(* their results are kept as terms over the time series and the period     *)
(* grid, and such a call raises on the series of failOn.  Periods are      *)
(* exact rationals <<numerator, denominator>>.                             *)
(***************************************************************************)
EXTENDS Integers, Sequences, FiniteSets, TLC

\* ---- bounds of the model ----
MaxH == 3
MovieW == 2
MaxFail == 1
MaxCpu == 3
MaxT == 2
MaxNT == 3

Series == 0..(MaxH * MovieW - 1)

\* the movie of h rows whose pixel (y, x) holds series y * MovieW + x
LabelledMovie(h) ==
    [r \in 1..h |-> [c \in 1..MovieW |-> (r - 1) * MovieW + (c - 1)]]

Movies == {LabelledMovie(h) : h \in 1..MaxH}

\* the sets of at most MaxFail pixels of a movie of h rows
FailSets(h) ==
    {F \in SUBSET (0..(h * MovieW - 1)) : Cardinality(F) <= MaxFail}

VARIABLES
    movie,        \* run_parallel's argument movie, rows of pixels
    n_cpu,        \* requested number of processes
    ncpu_avail,   \* mp.cpu_count()
    Tmin, Tmax, nT,
    failOn,       \* the time series on which a pyboat call raises
    pc,           \* the manager: "call", "starmap", "concat", "returned", "raised"
    exc,          \* the exception run_parallel raised, "" if none
    movie_split,  \* np.array_split(movie, n_cpu, axis = 1)
    frame,        \* per task: the locals of its transform_stack call
    order,        \* task indices in the order the tasks finished
    res_movies,   \* what pool.starmap returned
    ret           \* what run_parallel returned

vars == <<movie, n_cpu, ncpu_avail, Tmin, Tmax, nT, failOn, pc, exc,
          movie_split, frame, order, res_movies, ret>>

\* ---- np.linspace(Tmin, Tmax, nT) ----

\* a/b <= c/d and a/b = c/d for positive denominators
RatLeq(p, q) == p[1] * q[2] <= q[1] * p[2]
RatEq(p, q) == p[1] * q[2] = q[1] * p[2]

\* np.linspace without its endpoint (endpoint = False), for comparison
LinspaceOpenEnd(start, stop, num) ==
    IF num < 0 THEN [ok |-> FALSE, val |-> <<>>]
    ELSE [ok |-> TRUE,
          val |-> [i \in 1..num |-> <<start * num + (i - 1) * (stop - start), num>>]]

\* np.linspace(start, stop, num): ValueError for num < 0; num samples
\* start + i * (stop - start) / (num - 1), the last one set to stop
Linspace(start, stop, num) ==
    IF num < 0 THEN [ok |-> FALSE, val |-> <<>>]
    ELSE IF num = 1 THEN [ok |-> TRUE, val |-> <<(<<start, 1>>)>>]
    ELSE LET div == num - 1
         IN [ok |-> TRUE,
             val |-> [i \in 1..num |->
                        IF i = num THEN <<stop, 1>>
                        ELSE <<start * div + (i - 1) * (stop - start), div>>]]


\* ---- the per-pixel pipeline, transform_stack lines 150-173 ----

\* the initial content of a column of an output array (np.zeros)
ZeroCol == <<"zeros">>

\* the row of periods the ridge takes: pb.get_maxRidge_ys on the spectrum
\* of the signal, one of the nper rows of the modulus, a fixed function of
\* the signal and the number of periods
RidgeYs(series, nper) == (series % nper) + 1

\* a call of the pipeline raises: a pyboat call raises on this signal, or
\* periods is empty and periods[ridge_ys] has nothing to index
PixelRaises(series, periods) == series \in failOn \/ Len(periods) = 0

PixelError(series, periods) ==
    IF series \in failOn THEN "PyboatError" ELSE "IndexError"

\* the four columns computed for one pixel
Pipeline(series, periods) ==
    LET ridge_ys == RidgeYs(series, Len(periods))
        ridge_periods == periods[ridge_ys]
    IN [phases |-> <<"angle", series, ridge_ys>>,
        ridge_periods |-> <<"period", ridge_periods[1], ridge_periods[2]>>,
        powers |-> <<"modulus", series, ridge_ys>>,
        amplitudes |-> <<"power_to_amplitude", ridge_periods[1],
                         ridge_periods[2], series, ridge_ys>>]

\* ---- transform_stack ----

Zeros(ydim, xdim) == [r \in 1..ydim |-> [c \in 1..xdim |-> ZeroCol]]
Counts(ydim, xdim) == [r \in 1..ydim |-> [c \in 1..xdim |-> 0]]

\* a faulty write, arr[:, y, :] = col, for comparison
WriteWholeRow(arr, y, x, col) ==
    [arr EXCEPT ![y + 1] = [c \in 1..Len(arr[y + 1]) |-> col]]

\* arr[:, y, x] = col, with y and x counted from 0 as in the source
WriteColumn(arr, y, x, col) == [arr EXCEPT ![y + 1][x + 1] = col]

\* the locals of a transform_stack call that has not run yet
NewFrame(chunk) ==
    [status |-> "queued", error |-> "", movie |-> chunk, periods |-> <<>>,
     x |-> 0, y |-> 0,
     phase_movie |-> <<>>, period_movie |-> <<>>,
     power_movie |-> <<>>, amplitude_movie |-> <<>>, visits |-> <<>>]

Ydim(fr) == Len(fr.movie)
Xdim(fr) == MovieW

\* lines 121-135: the period grid and the four output arrays
Enter(fr) ==
    LET g == Linspace(Tmin, Tmax, nT)
    IN IF ~g.ok
       THEN [fr EXCEPT !.status = "failed", !.error = "ValueError"]
       ELSE [fr EXCEPT !.status = "running",
                       !.periods = g.val,
                       !.phase_movie = Zeros(Ydim(fr), Xdim(fr)),
                       !.period_movie = Zeros(Ydim(fr), Xdim(fr)),
                       !.power_movie = Zeros(Ydim(fr), Xdim(fr)),
                       !.amplitude_movie = Zeros(Ydim(fr), Xdim(fr)),
                       !.visits = Counts(Ydim(fr), Xdim(fr))]

\* for x in range(xdim): for y in range(ydim): both loops are over
LoopDone(fr) == fr.x >= Xdim(fr) \/ Ydim(fr) = 0

\* the pixel after (x, y): y runs in the inner loop
Advance(fr) ==
    IF fr.y + 1 < Ydim(fr) THEN [fr EXCEPT !.y = fr.y + 1]
    ELSE [fr EXCEPT !.x = fr.x + 1, !.y = 0]

\* lines 138-178: one pass of the loop body, at pixel (fr.x, fr.y)
Step(fr) ==
    LET input_vec == fr.movie[fr.y + 1][fr.x + 1]
    IN IF PixelRaises(input_vec, fr.periods)
       THEN [fr EXCEPT !.status = "failed",
                       !.error = PixelError(input_vec, fr.periods)]
       ELSE LET p == Pipeline(input_vec, fr.periods)
            IN Advance(
                 [fr EXCEPT
                    !.phase_movie = WriteColumn(@, fr.y, fr.x, p.phases),
                    !.period_movie = WriteColumn(@, fr.y, fr.x, p.ridge_periods),
                    !.power_movie = WriteColumn(@, fr.y, fr.x, p.powers),
                    !.amplitude_movie = WriteColumn(@, fr.y, fr.x, p.amplitudes),
                    !.visits = [@ EXCEPT ![fr.y + 1][fr.x + 1] = @ + 1]])

\* line 180
Return(fr) == [fr EXCEPT !.status = "done"]

\* the tuple a finished call returns
Result(fr) ==
    <<fr.phase_movie, fr.period_movie, fr.power_movie, fr.amplitude_movie>>

RECURSIVE Run(_)
Run(fr) ==
    IF fr.status = "queued" THEN Run(Enter(fr))
    ELSE IF fr.status = "running"
         THEN IF LoopDone(fr) THEN Return(fr) ELSE Run(Step(fr))
         ELSE fr

\* a whole call transform_stack(chunk, dt, Tmin, Tmax, nT, T_c, L)
TransformStack(chunk) == Run(NewFrame(chunk))

\* ---- run_parallel ----

\* a faulty division that drops the extra rows, for comparison
DivPointsFloor(ntotal, nsections) ==
    [i \in 1..(nsections + 1) |-> (i - 1) * (ntotal \div nsections)]

\* np.array_split: the cumulative division points of ntotal rows into
\* nsections sections, div_points[1] = 0; the first ntotal % nsections
\* sections get one row more
DivPoints(ntotal, nsections) ==
    LET neach == ntotal \div nsections
        extras == ntotal % nsections
    IN [i \in 1..(nsections + 1) |->
          IF i - 1 <= extras THEN (i - 1) * (neach + 1)
          ELSE extras * (neach + 1) + (i - 1 - extras) * neach]

ArraySplit(ary, nsections) ==
    LET div_points == DivPoints(Len(ary), nsections)
    IN [i \in 1..nsections |->
          SubSeq(ary, div_points[i] + 1, div_points[i + 1])]

\* a faulty barrier that waits for one task only, for comparison
SomeReturned(fr) == \E i \in DOMAIN fr : fr[i].status \in {"done", "failed"}

\* starmap returns (or raises) once every task is over
AllReturned(fr) == \A i \in DOMAIN fr : fr[i].status \in {"done", "failed"}

\* a starmap that swallows the exceptions of its tasks, for comparison
NeverRaises(fr) == FALSE

\* a failed task makes starmap raise

StarmapRaises(fr) == \E i \in DOMAIN fr : fr[i].status = "failed"

\* results listed in the order the tasks finished (imap_unordered), for
\* comparison
CollectAsCompleted(fr, ord) == [k \in 1..Len(ord) |-> Result(fr[ord[k]])]

\* the list starmap returns: the result of task i at index i
Collect(fr, ord) == [i \in 1..Len(fr) |-> Result(fr[i])]

\* a concatenation in reverse list order, for comparison
RECURSIVE ConcatReversed(_, _)
ConcatReversed(res, k) ==
    IF res = <<>> THEN <<>>
    ELSE ConcatReversed(Tail(res), k) \o Head(res)[k]

\* np.concatenate([r[k] for r in res], axis = 1)
RECURSIVE Concatenate(_, _)
Concatenate(res, k) ==
    IF res = <<>> THEN <<>>
    ELSE Head(res)[k] \o Concatenate(Tail(res), k)

CpuCounts == 1..MaxCpu
Periods == 1..MaxT
Counts_nT == (0 - 1)..MaxNT

\* the call run_parallel(movie, n_cpu, dt, Tmin, Tmax, nT, T_c, L): either
\* any period scan and pyboat calls that never raise, or the widest scan
\* and any set of at most MaxFail pixels on which a pyboat call raises
Init ==
    /\ movie \in Movies
    /\ n_cpu \in CpuCounts
    /\ ncpu_avail \in CpuCounts
    /\ \/ /\ Tmin \in Periods
          /\ Tmax \in Periods
          /\ nT \in Counts_nT
          /\ failOn = {}
       \/ /\ Tmin = 1
          /\ Tmax = MaxT
          /\ nT = MaxNT
          /\ failOn \in FailSets(Len(movie))
    /\ pc = "call"
    /\ exc = ""
    /\ movie_split = <<>>
    /\ frame = <<>>
    /\ order = <<>>
    /\ res_movies = <<>>
    /\ ret = <<>>

inputs == <<movie, n_cpu, ncpu_avail, Tmin, Tmax, nT, failOn>>

\* lines 221-229: more processes requested than available
OverRequest ==
    /\ pc = "call"
    /\ n_cpu > ncpu_avail
    /\ pc' = "raised"
    /\ exc' = "NameError"
    /\ UNCHANGED <<inputs, movie_split, frame, order, res_movies, ret>>

\* lines 221-242: the pool, the split, one task per slice
Dispatch ==
    /\ pc = "call"
    /\ ~(n_cpu > ncpu_avail)
    /\ movie_split' = ArraySplit(movie, n_cpu)
    /\ frame' = [i \in 1..n_cpu |-> NewFrame(movie_split'[i])]
    /\ pc' = "starmap"
    /\ UNCHANGED <<inputs, exc, order, res_movies, ret>>

\* what a task of the pool does next
Finished(fr) == fr.status \in {"done", "failed"}

\* tasks that write into the same four output arrays, for comparison
SharedArrays(frames, i, fr) ==
    [j \in DOMAIN frames |->
       IF j = i \/ frames[j].status # "running" \/ fr.status # "running"
       THEN IF j = i THEN fr ELSE frames[j]
       ELSE [frames[j] EXCEPT !.phase_movie = fr.phase_movie,
                              !.period_movie = fr.period_movie,
                              !.power_movie = fr.power_movie,
                              !.amplitude_movie = fr.amplitude_movie]]

\* the pool's memory once the process running task i has taken its call
\* to fr: a call allocates its own output arrays (lines 125-128) in a
\* process of its own (line 235), so no other task's locals change
PoolMemory(frames, i, fr) == [frames EXCEPT ![i] = fr]

TaskEnter(i) ==
    /\ frame[i].status = "queued"
    /\ frame' = PoolMemory(frame, i, Enter(frame[i]))
    /\ order' = IF Finished(frame'[i]) THEN Append(order, i) ELSE order
    /\ UNCHANGED <<inputs, pc, exc, movie_split, res_movies, ret>>

TaskStep(i) ==
    /\ frame[i].status = "running"
    /\ ~LoopDone(frame[i])
    /\ frame' = PoolMemory(frame, i, Step(frame[i]))
    /\ order' = IF Finished(frame'[i]) THEN Append(order, i) ELSE order
    /\ UNCHANGED <<inputs, pc, exc, movie_split, res_movies, ret>>

TaskReturn(i) ==
    /\ frame[i].status = "running"
    /\ LoopDone(frame[i])
    /\ frame' = PoolMemory(frame, i, Return(frame[i]))
    /\ order' = Append(order, i)
    /\ UNCHANGED <<inputs, pc, exc, movie_split, res_movies, ret>>

\* line 241: starmap re-raises the first exception once all tasks are over
StarmapRaise ==
    /\ pc = "starmap"
    /\ AllReturned(frame)
    /\ StarmapRaises(frame)
    /\ LET first == CHOOSE k \in 1..Len(order) :
                      /\ frame[order[k]].status = "failed"
                      /\ \A j \in 1..(k - 1) : frame[order[j]].status # "failed"
       IN exc' = frame[order[first]].error
    /\ pc' = "raised"
    /\ UNCHANGED <<inputs, movie_split, frame, order, res_movies, ret>>

\* line 241: starmap returns the list of results
StarmapReturn ==
    /\ pc = "starmap"
    /\ AllReturned(frame)
    /\ ~StarmapRaises(frame)
    /\ res_movies' = Collect(frame, order)
    /\ pc' = "concat"
    /\ UNCHANGED <<inputs, exc, movie_split, frame, order, ret>>

\* lines 245-252
Stitch ==
    /\ pc = "concat"
    /\ ret' = <<Concatenate(res_movies, 1), Concatenate(res_movies, 2),
                Concatenate(res_movies, 3), Concatenate(res_movies, 4)>>
    /\ pc' = "returned"
    /\ UNCHANGED <<inputs, exc, movie_split, frame, order, res_movies>>

Next ==
    \/ OverRequest
    \/ Dispatch
    \/ \E i \in DOMAIN frame : TaskEnter(i)
    \/ \E i \in DOMAIN frame : TaskStep(i)
    \/ \E i \in DOMAIN frame : TaskReturn(i)
    \/ StarmapRaise
    \/ StarmapReturn
    \/ Stitch

Spec == Init /\ [][Next]_vars


\* ---- properties ----

Tasks == DOMAIN frame

\* the rows of a list of chunks, in list order
RECURSIVE Flatten(_)
Flatten(chunks) ==
    IF chunks = <<>> THEN <<>> ELSE Head(chunks) \o Flatten(Tail(chunks))

\* the number of rows in the first k chunks
RECURSIVE RowsBefore(_, _)
RowsBefore(chunks, k) ==
    IF k = 0 THEN 0 ELSE RowsBefore(chunks, k - 1) + Len(chunks[k])

\* task i has built its period grid
GridBuilt(i) == frame[i].status # "queued" /\ frame[i].error # "ValueError"

\* C1: the four movies run_parallel returns are, pixel for pixel, the four
\* movies one transform_stack call on the whole movie returns with the same
\* parameters, in whatever order the tasks ran and finished; and when a
\* task made run_parallel raise, the single call raises too.
C1_ParallelEqualsSingle ==
    LET single == TransformStack(movie)
    IN /\ pc = "returned" => single.status = "done" /\ ret = Result(single)
       /\ pc = "raised" /\ exc # "NameError" => single.status = "failed"

C1_Witness ==
    /\ pc = "returned"
    /\ n_cpu = 2
    /\ Len(movie) = 3
    /\ order = <<2, 1>>
    /\ movie[1] # movie[3]

\* C2: the split yields exactly n_cpu slices, also for n_cpu > H; their
\* row counts sum to H and differ by at most 1; slice i is the run of rows
\* that starts where slice i - 1 ended (no overlap, no gap), and the slices
\* put together in slice order are rows 0..H-1 in their order.
C2_Partition ==
    pc # "call" /\ exc # "NameError" =>
        /\ Len(movie_split) = n_cpu
        /\ RowsBefore(movie_split, n_cpu) = Len(movie)
        /\ \A i, j \in 1..n_cpu :
              Len(movie_split[i]) - Len(movie_split[j]) <= 1
        /\ \A i \in 1..n_cpu :
              movie_split[i] =
                 [r \in 1..Len(movie_split[i]) |->
                    movie[RowsBefore(movie_split, i - 1) + r]]
        /\ Flatten(movie_split) = movie

C2_Witness ==
    /\ pc = "starmap"
    /\ Len(movie) = 2
    /\ n_cpu = 3
    /\ Len(movie_split[3]) = 0

\* C3: a request for more processes than are available does not fail.
C3_OverRequestDoesNotFail == n_cpu > ncpu_avail => pc # "raised"

\* C4: the results are concatenated only after every task has returned.
C4_JoinBarrier ==
    pc \in {"concat", "returned"} \/ res_movies # <<>> =>
        \A i \in 1..n_cpu : frame[i].status = "done"

C4_Witness ==
    /\ pc = "concat"
    /\ n_cpu = 3
    /\ order = <<3, 1, 2>>

\* C5: the slices are assigned to the tasks at dispatch and stay assigned;
\* the i-th collected result is the result of transform_stack on the i-th
\* slice, whatever the order in which the tasks finished.
C5_ResultsInSliceOrder ==
    /\ \A i \in Tasks : frame[i].movie = movie_split[i]
    /\ pc \in {"concat", "returned"} =>
          /\ Len(res_movies) = n_cpu
          /\ \A i \in 1..n_cpu :
                res_movies[i] = Result(TransformStack(movie_split[i]))

C5_Witness ==
    /\ pc = "concat"
    /\ n_cpu = 2
    /\ order = <<2, 1>>
    /\ res_movies[1] # res_movies[2]

\* C6: once a task has failed, run_parallel returns no movies: nothing is
\* collected or stitched, and when all tasks are over the job has raised.
C6_WorkerFailureAborts ==
    (\E i \in Tasks : frame[i].status = "failed") =>
        /\ pc \in {"starmap", "raised"}
        /\ res_movies = <<>>
        /\ ret = <<>>

C6_Witness ==
    /\ pc = "raised"
    /\ \E i, j \in Tasks :
          /\ frame[i].status = "failed"
          /\ frame[j].status = "done"
          /\ Len(frame[j].movie) > 0

\* C7: with Tmin > Tmax or nT < 1 the call fails before any pixel is
\* processed: no task ever writes a column or returns, and run_parallel
\* returns no movies.
C7_MalformedRangeRejected ==
    Tmin > Tmax \/ nT < 1 =>
        /\ pc # "returned"
        /\ \A i \in Tasks :
              /\ frame[i].status # "done"
              /\ \A r \in 1..Len(frame[i].visits), c \in 1..MovieW :
                    frame[i].visits[r][c] = 0

\* C8: for Tmin <= Tmax the period grid has nT entries and never
\* decreases; for nT > 1 it starts at Tmin and ends at Tmax, for nT = 1 its
\* one entry is Tmin; all tasks of a run build the same grid.
C8_PeriodGrid ==
    /\ \A i \in Tasks : GridBuilt(i) /\ Tmin <= Tmax =>
          LET periods == frame[i].periods
          IN /\ Len(periods) = nT
             /\ \A k \in 1..(nT - 1) : RatLeq(periods[k], periods[k + 1])
             /\ nT > 1 => /\ RatEq(periods[1], <<Tmin, 1>>)
                          /\ RatEq(periods[nT], <<Tmax, 1>>)
             /\ nT = 1 => RatEq(periods[1], <<Tmin, 1>>)
    /\ \A i, j \in Tasks :
          GridBuilt(i) /\ GridBuilt(j) => frame[i].periods = frame[j].periods

C8_Witness ==
    /\ nT = 3
    /\ Tmin < Tmax
    /\ \E i, j \in Tasks : i # j /\ GridBuilt(i) /\ GridBuilt(j)

\* the four output arrays of a frame agree at row r, column c
SameColumn(f, g, r, c) ==
    /\ g.phase_movie[r][c] = f.phase_movie[r][c]
    /\ g.period_movie[r][c] = f.period_movie[r][c]
    /\ g.power_movie[r][c] = f.power_movie[r][c]
    /\ g.amplitude_movie[r][c] = f.amplitude_movie[r][c]

\* C9: a pass of the pixel loop at (y, x) writes column [:, y, x] of the
\* four output arrays and no other column, no coordinate is visited twice,
\* and a call that returns has written every column exactly once.
C9_PixelLoop ==
    [][\A i \in Tasks :
         LET f == frame[i]
             g == frame'[i]
         IN /\ f.status = "running" /\ g.status = "running" /\ g # f =>
                 /\ \A r \in 1..Len(f.movie), c \in 1..MovieW :
                       IF <<r, c>> = <<f.y + 1, f.x + 1>>
                       THEN /\ g.visits[r][c] = 1
                            /\ f.visits[r][c] = 0
                            /\ g.phase_movie[r][c] # ZeroCol
                            /\ g.period_movie[r][c] # ZeroCol
                            /\ g.power_movie[r][c] # ZeroCol
                            /\ g.amplitude_movie[r][c] # ZeroCol
                       ELSE /\ g.visits[r][c] = f.visits[r][c]
                            /\ SameColumn(f, g, r, c)
            /\ g.status = "done" =>
                 /\ \A r \in 1..Len(g.movie), c \in 1..MovieW :
                       /\ g.visits[r][c] = 1
                       /\ g.phase_movie[r][c] # ZeroCol
                       /\ g.period_movie[r][c] # ZeroCol
                       /\ g.power_movie[r][c] # ZeroCol
                       /\ g.amplitude_movie[r][c] # ZeroCol
                 /\ Len(g.phase_movie) = Len(g.movie)
                 /\ Len(g.period_movie) = Len(g.movie)
                 /\ Len(g.power_movie) = Len(g.movie)
                 /\ Len(g.amplitude_movie) = Len(g.movie)]_vars

C9_Witness ==
    \E i \in Tasks :
        /\ frame[i].status = "done"
        /\ Len(frame[i].movie) = 2

\* C10: a step of one task changes the locals of no other task and never
\* the slice a task was given; the input movie and its split never change.
C10_Isolation ==
    [][/\ movie' = movie
       /\ movie_split # <<>> => movie_split' = movie_split
       /\ \A i \in Tasks :
             /\ frame'[i].movie = frame[i].movie
             /\ frame'[i] # frame[i] =>
                   \A j \in Tasks \ {i} : frame'[j] = frame[j]]_vars

C10_Witness ==
    /\ pc = "returned"
    /\ n_cpu = 3
    /\ Len(movie) = 3
    /\ order = <<2, 3, 1>>

====
